---- MODULE Spec2Model ----
(***************************************************************************)
(* Model of the HTTP stream recompressor (src/index.js): negotiation of    *)
(* the input and output encodings, the BufferStream transform that buffers *)
(* up to a size limit and then switches to streaming, the two ways a       *)
(* response is finalized, and the process-wide p-queue (concurrency 1,     *)
(* timeout 3 minutes) every call of httpStreamRecompress goes through.     *)
(*                                                                         *)
(* Text that the code inspects (header values given to detectEncoding and  *)
(* the content type) is a sequence of one-character strings, so that       *)
(* toLowerCase, includes and the regular expression are computed.  Bytes   *)
(* are small naturals; a body is a sequence of bytes and a chunk is a      *)
(* non-empty piece of one.                                                 *)
(***************************************************************************)
EXTENDS Integers, Sequences, FiniteSets, TLC

(***************************************************************************)
(* Bounds of the model.                                                    *)
(***************************************************************************)
\* The size limit handed to BufferStream, 16 * MB in index.js:123, scaled
\* down to a few bytes.
MaxSize == 3
\* The most chunks the input stream delivers one body in.
MaxChunks == 3
\* The number of concurrent calls of httpStreamRecompress in SpecQ.
NumCalls == 3

\* The longest decoded body: one byte more than the limit.
MaxLen == MaxSize + 1

(***************************************************************************)
(* Text.                                                                   *)
(***************************************************************************)
S_br == <<"b", "r">>
S_gzip == <<"g", "z", "i", "p">>
S_deflate == <<"d", "e", "f", "l", "a", "t", "e">>
S_undefined == <<"u", "n", "d", "e", "f", "i", "n", "e", "d">>
S_audio == <<"a", "u", "d", "i", "o">>
S_image == <<"i", "m", "a", "g", "e">>
S_video == <<"v", "i", "d", "e", "o">>

UpperChars == <<"A", "B", "C", "D", "E", "F", "G", "H", "I", "J", "K", "L", "M",
                "N", "O", "P", "Q", "R", "S", "T", "U", "V", "W", "X", "Y", "Z">>
LowerChars == <<"a", "b", "c", "d", "e", "f", "g", "h", "i", "j", "k", "l", "m",
                "n", "o", "p", "q", "r", "s", "t", "u", "v", "w", "x", "y", "z">>

\* String.prototype.toLowerCase
toLowerCase(text) ==
    [i \in 1..Len(text) |->
        IF \E j \in 1..Len(UpperChars) : UpperChars[j] = text[i]
        THEN LowerChars[CHOOSE j \in 1..Len(UpperChars) : UpperChars[j] = text[i]]
        ELSE text[i]]

\* String.prototype.includes
includes(text, pattern) ==
    \E i \in 0..(Len(text) - Len(pattern)) :
        \A j \in 1..Len(pattern) : text[i + j] = pattern[j]

\* text.replace(/\/.*/, ''): the text before the first slash.
beforeSlash(text) ==
    IF \E i \in 1..Len(text) : text[i] = "/"
    THEN SubSeq(text, 1, (CHOOSE i \in 1..Len(text) :
                            /\ text[i] = "/"
                            /\ \A j \in 1..(i - 1) : text[j] # "/") - 1)
    ELSE text

(***************************************************************************)
(* Header maps: functions from the keys present to their values.           *)
(***************************************************************************)
hasKey(headers, key) == key \in DOMAIN headers

setKey(headers, key, value) ==
    [k \in DOMAIN headers \cup {key} |-> IF k = key THEN value ELSE headers[k]]

deleteKey(headers, key) ==
    [k \in DOMAIN headers \ {key} |-> headers[k]]

\* '' + headers[key]: an absent key reads as undefined, whose text is
\* "undefined".
textOf(headers, key) ==
    IF hasKey(headers, key) THEN headers[key] ELSE S_undefined

(***************************************************************************)
(* detectEncoding and the names of the ENCODINGS.                          *)
(***************************************************************************)
EncodingNames == {"br", "gzip", "deflate", "raw"}

\* detectEncoding looking for gzip before brotli.
detectEncodingGzipFirst(text, ignoreBrotli) ==
    LET t == toLowerCase(text) IN
    IF includes(t, S_gzip) THEN "gzip"
    ELSE IF ~ignoreBrotli /\ includes(t, S_br) THEN "br"
    ELSE IF includes(t, S_deflate) THEN "deflate"
    ELSE "raw"

detectEncoding(text, ignoreBrotli) ==
    LET t == toLowerCase(text) IN
    IF ~ignoreBrotli /\ includes(t, S_br) THEN "br"
    ELSE IF includes(t, S_gzip) THEN "gzip"
    ELSE IF includes(t, S_deflate) THEN "deflate"
    ELSE "raw"

\* setEncoding with a raw encoding that leaves the headers as they are.
setEncodingKeepsOrigin(name, headers) ==
    CASE name = "br" -> setKey(headers, "content-encoding", S_br)
      [] name = "gzip" -> setKey(headers, "content-encoding", S_gzip)
      [] name = "deflate" -> setKey(headers, "content-encoding", S_deflate)
      [] OTHER -> headers

\* ENCODINGS.<name>().setEncoding(headers)
setEncoding(name, headers) ==
    CASE name = "br" -> setKey(headers, "content-encoding", S_br)
      [] name = "gzip" -> setKey(headers, "content-encoding", S_gzip)
      [] name = "deflate" -> setKey(headers, "content-encoding", S_deflate)
      [] OTHER -> deleteKey(headers, "content-encoding")

(***************************************************************************)
(* The codecs of zlib behind ENCODINGS.  A compressed body is one byte     *)
(* naming the format followed by (count, byte) pairs, each standing for a  *)
(* run of equal bytes; the level bounds the run one pair may stand for, so *)
(* the fast and the best preset give different bytes for the same body and *)
(* a compressed body may be shorter or longer than the body itself.        *)
(***************************************************************************)
\* getOptions: BROTLI_PARAM_QUALITY fast ? 3 : 11, level fast ? 3 : 9.
getOptions(name, fast) ==
    IF name = "br" THEN (IF fast THEN 3 ELSE 11) ELSE (IF fast THEN 3 ELSE 9)

\* The first byte of a compressed body of each format.
magic(name) ==
    CASE name = "br" -> 206
      [] name = "gzip" -> 31
      [] name = "deflate" -> 120

\* The length of the run of equal bytes the body starts with, at most limit.
RECURSIVE runLength(_, _)
runLength(bytes, limit) ==
    IF bytes = <<>> THEN 0
    ELSE IF Len(bytes) = 1 \/ limit <= 1 THEN 1
    ELSE IF bytes[2] = bytes[1] THEN 1 + runLength(Tail(bytes), limit - 1)
    ELSE 1

RECURSIVE runs(_, _)
runs(bytes, limit) ==
    IF bytes = <<>> THEN <<>>
    ELSE LET n == runLength(bytes, limit)
         IN  <<n, bytes[1]>> \o runs(SubSeq(bytes, n + 1, Len(bytes)), limit)

\* ENCODINGS.<name>().compressBuffer(buffer, fast), when zlib reports no
\* error.
compressBuffer(name, buffer, fast) ==
    IF name = "raw" THEN buffer
    ELSE <<magic(name)>> \o runs(buffer, getOptions(name, fast))

\* A decompressStream of zlib: whether the format byte was read, and the
\* count read of a pair whose byte has not arrived (0: none).
newInflate == [started |-> FALSE, count |-> 0, failed |-> FALSE]

RECURSIVE repeat(_, _)
repeat(byte, n) == IF n <= 0 THEN <<>> ELSE <<byte>> \o repeat(byte, n - 1)

\* One chunk written to a decompressStream: its next state and the bytes it
\* emits.
RECURSIVE inflate(_, _, _, _)
inflate(name, state, chunk, out) ==
    IF chunk = <<>> \/ state.failed THEN [state |-> state, out |-> out]
    ELSE IF ~state.started
         THEN IF chunk[1] = magic(name)
              THEN inflate(name, [state EXCEPT !.started = TRUE], Tail(chunk), out)
              ELSE [state |-> [state EXCEPT !.failed = TRUE], out |-> out]
    ELSE IF state.count = 0
         THEN IF chunk[1] >= 1
              THEN inflate(name, [state EXCEPT !.count = chunk[1]], Tail(chunk), out)
              ELSE [state |-> [state EXCEPT !.failed = TRUE], out |-> out]
    ELSE inflate(name, [state EXCEPT !.count = 0], Tail(chunk),
                 out \o repeat(chunk[1], state.count))

\* The end of a decompressStream's input is an error (unexpected end of
\* file) unless the compressed body was complete.
inflateEndOk(state) == state.started /\ state.count = 0 /\ ~state.failed

\* zlib.gunzipSync / brotliDecompressSync (test.js:98-103): the decoded
\* body, or the error.
decompressSync(name, bytes) ==
    IF name = "raw" THEN [ok |-> TRUE, bytes |-> bytes]
    ELSE LET r == inflate(name, newInflate, bytes, <<>>)
         IN  [ok |-> inflateEndOk(r.state), bytes |-> r.out]

\* A compressStream of zlib: the format byte goes out with the first chunk.
newDeflate == [started |-> FALSE]

deflateChunk(name, fast, state, chunk) ==
    [state |-> [started |-> TRUE],
     out |-> (IF state.started THEN <<>> ELSE <<magic(name)>>)
             \o runs(chunk, getOptions(name, fast))]

(***************************************************************************)
(* BufferStream(maxSize, handleBuffer, handleStream).                      *)
(***************************************************************************)
RECURSIVE concat(_)
concat(chunks) ==
    IF chunks = <<>> THEN <<>> ELSE Head(chunks) \o concat(Tail(chunks))

BufferStream(maxSize) ==
    [maxSize |-> maxSize, buffers |-> <<>>, size |-> 0, bufferMode |-> TRUE]

\* bufferStreamTransform pushing the chunks buffered before this one only.
bufferStreamTransformDropsChunk(bs, chunk) ==
    IF bs.bufferMode
    THEN LET buffers == Append(bs.buffers, chunk)
             size == bs.size + Len(chunk)
         IN  IF size >= bs.maxSize
             THEN [state |-> [bs EXCEPT !.buffers = buffers, !.size = size,
                                        !.bufferMode = FALSE],
                   handleStream |-> TRUE,
                   push |-> bs.buffers]
             ELSE [state |-> [bs EXCEPT !.buffers = buffers, !.size = size],
                   handleStream |-> FALSE,
                   push |-> <<>>]
    ELSE [state |-> bs, handleStream |-> FALSE, push |-> <<chunk>>]

\* bufferStreamTransform leaving bufferMode set at the switch.
bufferStreamTransformNoSwitch(bs, chunk) ==
    LET buffers == Append(bs.buffers, chunk)
        size == bs.size + Len(chunk)
    IN  IF size >= bs.maxSize
        THEN [state |-> [bs EXCEPT !.buffers = buffers, !.size = size],
              handleStream |-> TRUE,
              push |-> buffers]
        ELSE [state |-> [bs EXCEPT !.buffers = buffers, !.size = size],
              handleStream |-> FALSE,
              push |-> <<>>]

\* bufferStreamTransform switching only above the limit (size > maxSize).
bufferStreamTransformAbove(bs, chunk) ==
    IF bs.bufferMode
    THEN LET buffers == Append(bs.buffers, chunk)
             size == bs.size + Len(chunk)
         IN  IF size > bs.maxSize
             THEN [state |-> [bs EXCEPT !.buffers = buffers, !.size = size,
                                        !.bufferMode = FALSE],
                   handleStream |-> TRUE,
                   push |-> buffers]
             ELSE [state |-> [bs EXCEPT !.buffers = buffers, !.size = size],
                   handleStream |-> FALSE,
                   push |-> <<>>]
    ELSE [state |-> bs, handleStream |-> FALSE, push |-> <<chunk>>]

\* bufferStreamTransform without the return at the switch: the chunk that
\* reaches the limit is pushed with the buffered ones and passed through.
bufferStreamTransformPushesTwice(bs, chunk) ==
    IF bs.bufferMode
    THEN LET buffers == Append(bs.buffers, chunk)
             size == bs.size + Len(chunk)
         IN  IF size >= bs.maxSize
             THEN [state |-> [bs EXCEPT !.buffers = buffers, !.size = size,
                                        !.bufferMode = FALSE],
                   handleStream |-> TRUE,
                   push |-> Append(buffers, chunk)]
             ELSE [state |-> [bs EXCEPT !.buffers = buffers, !.size = size],
                   handleStream |-> FALSE,
                   push |-> <<>>]
    ELSE [state |-> bs, handleStream |-> FALSE, push |-> <<chunk>>]

\* bufferStreamTransform that goes on keeping the chunks after the switch.
bufferStreamTransformAccumulates(bs, chunk) ==
    LET buffers == Append(bs.buffers, chunk)
        size == bs.size + Len(chunk)
    IN  IF bs.bufferMode
        THEN IF size >= bs.maxSize
             THEN [state |-> [bs EXCEPT !.buffers = buffers, !.size = size,
                                        !.bufferMode = FALSE],
                   handleStream |-> TRUE,
                   push |-> buffers]
             ELSE [state |-> [bs EXCEPT !.buffers = buffers, !.size = size],
                   handleStream |-> FALSE,
                   push |-> <<>>]
        ELSE [state |-> [bs EXCEPT !.buffers = buffers, !.size = size],
              handleStream |-> FALSE,
              push |-> <<chunk>>]

\* The transform function: the next state, whether handleStream is called,
\* and the chunks pushed downstream (after handleStream has returned).
bufferStreamTransform(bs, chunk) ==
    IF bs.bufferMode
    THEN LET buffers == Append(bs.buffers, chunk)
             size == bs.size + Len(chunk)
         IN  IF size >= bs.maxSize
             THEN [state |-> [bs EXCEPT !.buffers = buffers, !.size = size,
                                        !.bufferMode = FALSE],
                   handleStream |-> TRUE,
                   push |-> buffers]
             ELSE [state |-> [bs EXCEPT !.buffers = buffers, !.size = size],
                   handleStream |-> FALSE,
                   push |-> <<>>]
    ELSE [state |-> bs, handleStream |-> FALSE, push |-> <<chunk>>]

\* bufferStreamFlush calling handleBuffer in either mode.
bufferStreamFlushEitherMode(bs) ==
    [handleBuffer |-> TRUE, buffer |-> concat(bs.buffers)]

\* bufferStreamFlush handing handleBuffer the last chunk only.
bufferStreamFlushLastChunk(bs) ==
    [handleBuffer |-> bs.bufferMode,
     buffer |-> IF bs.buffers = <<>> THEN <<>>
                ELSE bs.buffers[Len(bs.buffers)]]

\* The flush function: whether handleBuffer is called, and with what.
bufferStreamFlush(bs) ==
    [handleBuffer |-> bs.bufferMode, buffer |-> concat(bs.buffers)]

(***************************************************************************)
(* The calls made: what each caller hands to httpStreamRecompress.         *)
(***************************************************************************)
Bytes == {0, 1}

\* The decoded bodies: every byte sequence of up to MaxLen bytes, up to the
\* renaming of the two byte values (the first byte, if any, is 0).
Bodies ==
    {b \in UNION {[1..n -> Bytes] : n \in 0..MaxLen} : b = <<>> \/ b[1] = 0}

T_gzip_deflate_br ==
    <<"g", "z", "i", "p", ",", " ", "d", "e", "f", "l", "a", "t", "e", ",", " ", "b", "r">>
T_gzip_deflate ==
    <<"g", "z", "i", "p", ",", " ", "d", "e", "f", "l", "a", "t", "e">>
T_image_png == <<"i", "m", "a", "g", "e", "/", "p", "n", "g">>
T_application_json ==
    <<"a", "p", "p", "l", "i", "c", "a", "t", "i", "o", "n", "/", "j", "s", "o", "n">>

\* The header map with no key.
noHeaders == [k \in {} |-> <<>>]

\* accept-encoding of the request: absent, or one of the values of test.js:40
\* and one that names deflate alone.
RequestHeaders ==
    {noHeaders} \cup
    {setKey(noHeaders, "accept-encoding", v) :
        v \in {T_gzip_deflate_br, T_gzip_deflate, S_deflate}}

\* content-type of the response (test.js:39).
ContentTypes == {T_image_png, T_application_json}

\* The encodings an origin's body may arrive in.
OriginEncodings == {"raw", "gzip", "deflate", "br"}

\* The bytes of the input stream: the body as the origin encoded it, and, for
\* a compressed body cut short by the origin, the same less its last byte.
wireOf(encoding, body, truncated) ==
    LET full == compressBuffer(encoding, body, FALSE)
    IN  IF truncated THEN SubSeq(full, 1, Len(full) - 1) ELSE full

\* The response headers as the caller passes them (test.js:65-68), with or
\* without a content-length and with or without headers left over from the
\* origin's own response.
responseHeadersOf(encoding, contentType, wire, withLength, withStale) ==
    LET h0 == setKey(noHeaders, "cache-control", "no-cache")
        h1 == IF encoding = "raw" THEN h0
              ELSE setEncoding(encoding, h0)
        h2 == IF contentType = <<>> THEN h1
              ELSE setKey(h1, "content-type", contentType)
        h3 == IF withLength THEN setKey(h2, "content-length", Len(wire)) ELSE h2
        h4 == IF withStale
              THEN setKey(setKey(h3, "transfer-encoding", "chunked"), "vary", "origin")
              ELSE h3
    IN  h4

\* One call: the request headers, the origin's encoding and content type, the
\* body, whether it is cut short, whether a content-length and the left-over
\* headers are passed, and fastCompression.
callOf(hq, encoding, contentType, body, truncated, withLength, withStale, fast) ==
    LET wire == wireOf(encoding, body, truncated)
    IN  [headersRequest |-> hq,
         headersResponse |->
             responseHeadersOf(encoding, contentType, wire, withLength, withStale),
         fastCompression |-> fast,
         origin |-> encoding,
         body |-> body,
         truncated |-> truncated,
         wire |-> wire,
         chunks |-> MaxChunks]

\* The calls of the one-call specification.  Every body, in every origin
\* encoding, whole or cut short, for every accept-encoding and either preset;
\* and every combination of the headers for a body below the limit and a
\* body at the limit.
DataCalls ==
    {c \in {callOf(hq, e, T_application_json, b, tr, TRUE, FALSE, f) :
                hq \in RequestHeaders, e \in OriginEncodings, b \in Bodies,
                tr \in BOOLEAN, f \in BOOLEAN} :
        c.truncated => c.origin # "raw"}

HeaderCalls ==
    {callOf(hq, e, ct, b, FALSE, wl, ws, f) :
        hq \in RequestHeaders, e \in OriginEncodings,
        ct \in ContentTypes \cup {<<>>},
        b \in {<<0, 1>>, [i \in 1..MaxSize |-> 0]},
        wl \in BOOLEAN, ws \in BOOLEAN, f \in BOOLEAN}

\* Calls whose content-length is not the length of what the input stream
\* delivers (test.js:68 sets it from the origin's body): none for a body at
\* the limit, and one beyond the limit for a body below it.
WrongLengths == {0, MaxSize + 5}

StaleLengthCalls ==
    {[c EXCEPT !.headersResponse = setKey(@, "content-length", n)] :
        c \in {callOf(hq, e, T_application_json, b, FALSE, TRUE, FALSE, FALSE) :
                  hq \in RequestHeaders, e \in {"raw", "gzip"},
                  b \in {<<0, 1>>, [i \in 1..MaxSize |-> 0]}},
        n \in WrongLengths}

Calls == DataCalls \cup HeaderCalls \cup StaleLengthCalls

\* The calls of the many-call specification: uncompressed JSON for a client
\* that accepts gzip, a body below the limit and a body at the limit, each
\* delivered by its input stream in one chunk.
QueueCalls ==
    <<[callOf(setKey(noHeaders, "accept-encoding", T_gzip_deflate), "raw",
              T_application_json, <<0>>, FALSE, FALSE, FALSE, FALSE)
          EXCEPT !.chunks = 1],
      [callOf(setKey(noHeaders, "accept-encoding", T_gzip_deflate), "raw",
              T_application_json, [i \in 1..MaxSize |-> 0], FALSE, FALSE, FALSE,
              FALSE)
          EXCEPT !.chunks = 1]>>

(***************************************************************************)
(* The calls of the negotiation specification: header values in upper and  *)
(* mixed case, with the tokens in another order, inside other words, or    *)
(* with none, for a body below the limit and a body at the limit.          *)
(***************************************************************************)
T_BR ==
    <<"B", "R">>
T_deflate_gzip ==
    <<"d", "e", "f", "l", "a", "t", "e", ",", " ", "g", "z", "i", "p">>
T_Deflate_GZip_Br ==
    <<"D", "e", "f", "l", "a", "t", "e", ",", " ", "G", "Z", "i", "p", ",",
      " ", "B", "r">>
T_identity ==
    <<"i", "d", "e", "n", "t", "i", "t", "y">>
T_GZIP ==
    <<"G", "Z", "I", "P">>
T_x_gzip ==
    <<"x", "-", "g", "z", "i", "p">>
T_gzip_br ==
    <<"g", "z", "i", "p", ",", " ", "b", "r">>
T_Video_mp4 ==
    <<"V", "i", "d", "e", "o", "/", "m", "p", "4">>
T_AUDIO_ogg ==
    <<"A", "U", "D", "I", "O", "/", "o", "g", "g">>
T_text_video ==
    <<"t", "e", "x", "t", "/", "v", "i", "d", "e", "o">>

\* accept-encoding of the request: absent, empty, and texts that hold the
\* tokens in either case and in any order, or none of them.
AcceptEncodings ==
    {noHeaders} \cup
    {setKey(noHeaders, "accept-encoding", v) :
        v \in {<<>>, T_gzip_deflate_br, T_gzip_deflate, S_deflate, T_BR,
               T_deflate_gzip, T_Deflate_GZip_Br, T_identity}}

\* content-encoding of the response (<<>>: absent) with the encoding the
\* body really has.
ContentEncodings ==
    {<<(<<>>), "raw">>, <<S_gzip, "gzip">>, <<S_deflate, "deflate">>,
     <<S_br, "br">>, <<T_GZIP, "gzip">>, <<T_x_gzip, "gzip">>,
     <<T_identity, "raw">>, <<T_gzip_br, "br">>}

\* content-type of the response (<<>>: absent).
MediaTypes ==
    {<<>>, T_application_json, T_image_png, T_Video_mp4, T_AUDIO_ogg, S_image,
     T_text_video}

\* callOf with the content-encoding header as the origin wrote it.
negotiationCallOf(hq, ce, contentType, body, fast) ==
    [callOf(hq, ce[2], contentType, body, FALSE, FALSE, FALSE, fast)
        EXCEPT !.chunks = 1,
               !.headersResponse =
                   IF ce[1] = <<>> THEN deleteKey(@, "content-encoding")
                   ELSE setKey(@, "content-encoding", ce[1])]

NegotiationCalls ==
    {negotiationCallOf(hq, ce, ct, b, f) :
        hq \in AcceptEncodings, ce \in ContentEncodings, ct \in MediaTypes,
        b \in {<<0>>, [i \in 1..MaxSize |-> 0]}, f \in BOOLEAN}

(***************************************************************************)
(* The state.                                                              *)
(***************************************************************************)
VARIABLES
    args,     \* call -> what the caller passed (never changes)
    pipe,     \* call -> the state of its pipeline
    sink,     \* call -> the calls made on its response, in order
    queue,    \* the jobs p-queue holds back, in the order they were added
    pending   \* the jobs p-queue counts as running

vars == <<args, pipe, sink, queue, pending>>

CallIds == DOMAIN args

\* new PQueue({concurrency: 1, ...})
concurrency == 1

newPipe(a) ==
    [pc |-> "new",
     headersResponse |-> a.headersResponse,
     encodingIn |-> "none",
     encodingOut |-> "none",
     streamIn |-> a.wire,
     delivered |-> 0,
     transform1 |-> newInflate,
     bufferStream |-> BufferStream(0),
     transform2 |-> newDeflate,
     handleBuffer |-> 0,
     handleStream |-> 0,
     flushed |-> FALSE,
     received |-> <<>>,
     emitted |-> <<>>,
     error |-> "none",
     resolved |-> 0,
     timedOut |-> FALSE]

InitOf(calls) ==
    /\ args \in calls
    /\ pipe = [p \in DOMAIN args |-> newPipe(args[p])]
    /\ sink = [p \in DOMAIN args |-> <<>>]
    /\ queue = <<>>
    /\ pending = {}

Init == InitOf([{1} -> Calls])

\* One call, over the header values of NegotiationCalls.
InitN == InitOf([{1} -> NegotiationCalls])

\* Every sequence of NumCalls calls out of QueueCalls, numbered in the order
\* in which they will be made.
InitQ ==
    InitOf({[p \in 1..NumCalls |-> QueueCalls[f[p]]] :
               f \in [1..NumCalls -> 1..Len(QueueCalls)]})

(***************************************************************************)
(* httpStreamRecompress: the job handed to the queue.                      *)
(***************************************************************************)
\* typeOf comparing the content type as it is written.
typeOfCaseSensitive(headersResponse) ==
    beforeSlash(textOf(headersResponse, "content-type"))

\* index.js:95: the content type up to the slash, in lower case.
typeOf(headersResponse) ==
    toLowerCase(beforeSlash(textOf(headersResponse, "content-type")))

\* encodingInOf as a lookup of the content-encoding among the names of
\* ENCODINGS.
encodingInOfExact(headersResponse) ==
    LET text == textOf(headersResponse, "content-encoding") IN
    IF text = S_br THEN "br"
    ELSE IF text = S_gzip THEN "gzip"
    ELSE IF text = S_deflate THEN "deflate"
    ELSE "raw"

\* index.js:91
encodingInOf(headersResponse) ==
    detectEncoding(textOf(headersResponse, "content-encoding"), FALSE)

\* encodingOutOf leaving brotli out for every body when fastCompression is
\* set.
encodingOutOfNoBrotliWhenFast(headersRequest, headersResponse, fastCompression) ==
    IF typeOf(headersResponse) \in {S_audio, S_image, S_video}
    THEN "raw"
    ELSE detectEncoding(textOf(headersRequest, "accept-encoding"),
                        fastCompression)

\* index.js:98-108
encodingOutOf(headersRequest, headersResponse, fastCompression) ==
    IF typeOf(headersResponse) \in {S_audio, S_image, S_video}
    THEN "raw"
    ELSE detectEncoding(textOf(headersRequest, "accept-encoding"),
                        fastCompression
                            /\ encodingInOf(headersResponse) = "gzip")

\* negotiatedHeaders setting vary only when the caller supplied none.
negotiatedHeadersKeepVary(headersRequest, headersResponse, fastCompression) ==
    setEncoding(encodingOutOf(headersRequest, headersResponse, fastCompression),
                IF hasKey(headersResponse, "vary") THEN headersResponse
                ELSE setKey(headersResponse, "vary", "accept-encoding"))

\* negotiatedHeaders removing the caller's content-length, which no longer
\* fits once the body is encoded anew.
negotiatedHeadersDropsLength(headersRequest, headersResponse, fastCompression) ==
    deleteKey(
        setEncoding(encodingOutOf(headersRequest, headersResponse, fastCompression),
                    setKey(headersResponse, "vary", "accept-encoding")),
        "content-length")

\* index.js:110-114: the header map after negotiation.
negotiatedHeaders(headersRequest, headersResponse, fastCompression) ==
    setEncoding(encodingOutOf(headersRequest, headersResponse, fastCompression),
                setKey(headersResponse, "vary", "accept-encoding"))

\* The size limit httpStreamRecompress gives its BufferStream (16 * MB).
bufferLimit == MaxSize

\* startJob attaching no decompressStream: BufferStream is given the bytes
\* as the origin encoded them.
startJobNoDecompress(a, this) ==
    [this EXCEPT
        !.pc = "piping",
        !.encodingIn = "raw",
        !.encodingOut =
            encodingOutOf(a.headersRequest, this.headersResponse, a.fastCompression),
        !.headersResponse =
            negotiatedHeaders(a.headersRequest, this.headersResponse,
                              a.fastCompression),
        !.transform1 = newInflate,
        !.bufferStream = BufferStream(bufferLimit)]

\* index.js:90-123: the job starts: the encodings are chosen, the headers
\* patched, and the input piped through the decompressor (if any) into a new
\* BufferStream.
startJob(a, this) ==
    [this EXCEPT
        !.pc = "piping",
        !.encodingIn = encodingInOf(this.headersResponse),
        !.encodingOut =
            encodingOutOf(a.headersRequest, this.headersResponse, a.fastCompression),
        !.headersResponse =
            negotiatedHeaders(a.headersRequest, this.headersResponse,
                              a.fastCompression),
        !.transform1 = newInflate,
        !.bufferStream = BufferStream(bufferLimit)]

\* streamHeaders leaving the caller's content-length in place.
streamHeadersKeepLength(headersResponse) ==
    setKey(headersResponse, "transfer-encoding", "chunked")

\* index.js:142-147, the start of handleStream: the headers of a chunked
\* response.
streamHeaders(headersResponse) ==
    deleteKey(setKey(headersResponse, "transfer-encoding", "chunked"),
              "content-length")

\* bufferHeaders leaving the caller's transfer-encoding in place.
bufferHeadersKeepTransferEncoding(headersResponse, buffer) ==
    setKey(headersResponse, "content-length", Len(buffer))

\* bufferHeaders keeping the content-length the caller passed, if any.
bufferHeadersTrustLength(headersResponse, buffer) ==
    IF hasKey(headersResponse, "content-length")
    THEN deleteKey(headersResponse, "transfer-encoding")
    ELSE setKey(deleteKey(headersResponse, "transfer-encoding"),
                "content-length", Len(buffer))

\* index.js:129-130 of handleBuffer: the headers of a response of known
\* length.
bufferHeaders(headersResponse, buffer) ==
    setKey(deleteKey(headersResponse, "transfer-encoding"),
           "content-length", Len(buffer))

\* sendHead writing the headers at the end of what was written so far and
\* the status after them.
sendHeadSetFirst(log, code, headers) ==
    log \o <<[op |-> "set", arg |-> headers], [op |-> "status", arg |-> code]>>

\* response.status(code).set(headers)
sendHead(log, code, headers) ==
    log \o <<[op |-> "status", arg |-> code], [op |-> "set", arg |-> headers]>>

\* The chunks BufferStream pushes, through the compressStream (if any), are
\* written to the response by pipe().
RECURSIVE pipeOut(_, _, _, _, _)
pipeOut(name, fast, state, chunks, log) ==
    IF chunks = <<>> THEN [state |-> state, log |-> log]
    ELSE IF name = "raw"
         THEN pipeOut(name, fast, state, Tail(chunks),
                      Append(log, [op |-> "write", arg |-> Head(chunks)]))
    ELSE LET d == deflateChunk(name, fast, state, Head(chunks))
         IN  pipeOut(name, fast, d.state, Tail(chunks),
                     Append(log, [op |-> "write", arg |-> d.out]))

(***************************************************************************)
(* p-queue.                                                                *)
(***************************************************************************)
\* What p-queue does when the promise of job p settles, by resolve() or by
\* the timeout: if it still counted p as running, the next job that waits, if
\* any, is started.  pipe1 is the pipelines' state after the step that
\* settled it.
settle(p, pipe1) ==
    IF p \in pending
    THEN IF queue # <<>>
         THEN /\ pending' = (pending \ {p}) \cup {Head(queue)}
              /\ queue' = Tail(queue)
              /\ pipe' = [pipe1 EXCEPT
                            ![Head(queue)] = startJob(args[Head(queue)], @)]
         ELSE /\ pending' = pending \ {p}
              /\ queue' = queue
              /\ pipe' = pipe1
    ELSE /\ pipe' = pipe1
         /\ UNCHANGED <<queue, pending>>

\* The number of calls of httpStreamRecompress made so far.
submitted == Cardinality({q \in CallIds : pipe[q].pc # "new"})

\* httpStreamRecompress without the queue: the job starts at once.
CallUnqueued(p) ==
    /\ pipe[p].pc = "new"
    /\ p = submitted + 1
    /\ pipe' = [pipe EXCEPT ![p] = startJob(args[p], @)]
    /\ UNCHANGED <<args, sink, queue, pending>>

\* Call running the negotiation at the time of the call, also for a job that
\* p-queue holds back.
CallNegotiatesEarly(p) ==
    /\ pipe[p].pc = "new"
    /\ p = submitted + 1
    /\ IF Cardinality(pending) < concurrency
       THEN /\ pipe' = [pipe EXCEPT ![p] = startJob(args[p], @)]
            /\ pending' = pending \cup {p}
            /\ queue' = queue
       ELSE /\ pipe' = [pipe EXCEPT
                          ![p] = [startJob(args[p], @) EXCEPT !.pc = "queued"]]
            /\ queue' = Append(queue, p)
            /\ pending' = pending
    /\ UNCHANGED <<args, sink>>

\* index.js:88-89: httpStreamRecompress adds the job; p-queue starts it at
\* once when fewer than `concurrency` jobs run, and holds it back otherwise.
\* The calls are numbered in the order they are made: call p is the p-th.
Call(p) ==
    /\ pipe[p].pc = "new"
    /\ p = submitted + 1
    /\ IF Cardinality(pending) < concurrency
       THEN /\ pipe' = [pipe EXCEPT ![p] = startJob(args[p], @)]
            /\ pending' = pending \cup {p}
            /\ queue' = queue
       ELSE /\ pipe' = [pipe EXCEPT ![p].pc = "queued"]
            /\ queue' = Append(queue, p)
            /\ pending' = pending
    /\ UNCHANGED <<args, sink>>

\* headersResponse is the caller's own object (index.js:88), which the job
\* reads only when it runs (index.js:91, 95): while the job waits, the caller
\* may still write to it.  Here the caller marks the response as an image.
CallerSetsHeader(p) ==
    /\ pipe[p].pc = "queued"
    /\ textOf(pipe[p].headersResponse, "content-type") # T_image_png
    /\ pipe' = [pipe EXCEPT
                  ![p].headersResponse = setKey(@, "content-type", T_image_png)]
    /\ UNCHANGED <<args, sink, queue, pending>>

\* The timeout of p-queue (index.js:71) passes for a job that runs: p-queue
\* goes on to the next job; the job itself is not stopped.
Timeout(p) ==
    /\ p \in pending
    /\ settle(p, [pipe EXCEPT ![p].timedOut = TRUE])
    /\ UNCHANGED <<args, sink>>

(***************************************************************************)
(* The pipeline of one job.                                                *)
(***************************************************************************)
\* The input stream delivers its next chunk, of k bytes.  It goes through
\* the decompressStream (index.js:119-120) into BufferStream's transform
\* function (index.js:187-203); when that calls handleStream
\* (index.js:140-155) the headers are finalized and written and the
\* compressStream attached, before the buffered chunks are pushed.
Chunk(p, k) ==
    LET this == pipe[p]
        a == args[p]
        chunk == SubSeq(this.streamIn, 1, k)
        inf == IF this.encodingIn = "raw"
               THEN [state |-> this.transform1, out |-> chunk]
               ELSE inflate(this.encodingIn, this.transform1, chunk, <<>>)
        t == IF inf.out = <<>> \/ inf.state.failed
             THEN [state |-> this.bufferStream, handleStream |-> FALSE, push |-> <<>>]
             ELSE bufferStreamTransform(this.bufferStream, inf.out)
        headers == IF t.handleStream
                   THEN streamHeaders(this.headersResponse)
                   ELSE this.headersResponse
        head == IF t.handleStream THEN sendHead(sink[p], 200, headers) ELSE sink[p]
        out == pipeOut(this.encodingOut, a.fastCompression, this.transform2,
                       t.push, head)
    IN  /\ this.pc = "piping"
        /\ k \in 1..Len(this.streamIn)
        /\ this.delivered < a.chunks
        /\ this.delivered = a.chunks - 1 => k = Len(this.streamIn)
        /\ pipe' = [pipe EXCEPT ![p] =
              [this EXCEPT
                 !.streamIn = SubSeq(this.streamIn, k + 1, Len(this.streamIn)),
                 !.delivered = @ + 1,
                 !.transform1 = inf.state,
                 !.bufferStream = t.state,
                 !.headersResponse = headers,
                 !.transform2 = out.state,
                 !.handleStream = @ + (IF t.handleStream THEN 1 ELSE 0),
                 !.received = IF inf.out = <<>> \/ inf.state.failed
                              THEN @ ELSE Append(@, inf.out),
                 !.emitted = @ \o t.push,
                 !.pc = IF inf.state.failed THEN "stalled" ELSE @,
                 !.error = IF inf.state.failed THEN "decompressStream" ELSE @]]
        /\ sink' = [sink EXCEPT ![p] = out.log]
        /\ UNCHANGED <<args, queue, pending>>

\* The input stream ends.  A decompressStream whose compressed body is not
\* complete emits an error, which nothing listens for.  Otherwise
\* BufferStream's flush function runs (index.js:204-208): in buffer mode it
\* calls handleBuffer, which starts compressBuffer (index.js:126); and the
\* end reaches the response when handleStream has piped the stream to it.
End(p) ==
    LET this == pipe[p]
        f == bufferStreamFlush(this.bufferStream)
    IN  /\ this.pc = "piping"
        /\ this.streamIn = <<>>
        /\ IF this.encodingIn # "raw" /\ ~inflateEndOk(this.transform1)
           THEN /\ pipe' = [pipe EXCEPT ![p].pc = "stalled",
                                        ![p].error = "decompressStream"]
                /\ sink' = sink
           ELSE /\ pipe' = [pipe EXCEPT
                              ![p].pc = IF f.handleBuffer THEN "compressing"
                                        ELSE "ending",
                              ![p].flushed = TRUE,
                              ![p].handleBuffer =
                                  @ + (IF f.handleBuffer THEN 1 ELSE 0)]
                /\ sink' = [sink EXCEPT ![p] =
                              IF this.handleStream > 0
                              THEN Append(@, [op |-> "end", arg |-> <<>>])
                              ELSE @]
        /\ UNCHANGED <<args, queue, pending>>

\* compressBuffer answers: the rest of handleBuffer (index.js:126-138) sets
\* the headers, writes status, headers and body, and resolves the job.
CompressBufferDone(p) ==
    LET this == pipe[p]
        buffer == compressBuffer(this.encodingOut,
                                 bufferStreamFlush(this.bufferStream).buffer,
                                 args[p].fastCompression)
        headers == bufferHeaders(this.headersResponse, buffer)
    IN  /\ this.pc = "compressing"
        /\ sink' = [sink EXCEPT ![p] =
                      Append(sendHead(@, 200, headers),
                             [op |-> "end", arg |-> buffer])]
        /\ settle(p, [pipe EXCEPT ![p].pc = "done",
                                  ![p].headersResponse = headers,
                                  ![p].resolved = @ + 1])
        /\ UNCHANGED args

\* zlib reports an error to the callback of compressBuffer, which drops it
\* and resolves with undefined (index.js:24, 38, 52): handleBuffer removes
\* transfer-encoding (index.js:129) and throws on buffer.length
\* (index.js:130), and its promise, which nothing holds, is rejected.
CompressBufferError(p) ==
    /\ pipe[p].pc = "compressing"
    /\ pipe[p].encodingOut # "raw"
    /\ pipe' = [pipe EXCEPT
                  ![p].pc = "stalled",
                  ![p].error = "compressBuffer",
                  ![p].headersResponse = deleteKey(@, "transfer-encoding")]
    /\ UNCHANGED <<args, sink, queue, pending>>

\* The compressStream emits an error, which nothing listens for
\* (index.js:150-151).
CompressStreamError(p) ==
    /\ pipe[p].pc = "piping"
    /\ ~pipe[p].bufferStream.bufferMode
    /\ pipe[p].encodingOut # "raw"
    /\ pipe' = [pipe EXCEPT ![p].pc = "stalled", ![p].error = "compressStream"]
    /\ UNCHANGED <<args, sink, queue, pending>>

\* The response fails or is closed while the stream is piped to it
\* (index.js:154): it never emits finish.
SinkError(p) ==
    /\ \/ pipe[p].pc = "piping" /\ ~pipe[p].bufferStream.bufferMode
       \/ pipe[p].pc = "ending"
    /\ pipe' = [pipe EXCEPT ![p].pc = "stalled", ![p].error = "sink"]
    /\ UNCHANGED <<args, sink, queue, pending>>

\* SinkFinish resolving on the response's drain event: as soon as the
\* response has taken what was written so far.
SinkFinishOnDrain(p) ==
    /\ pipe[p].pc \in {"piping", "ending"}
    /\ pipe[p].handleStream = 1
    /\ pipe[p].resolved = 0
    /\ settle(p, [pipe EXCEPT ![p].pc = IF @ = "ending" THEN "done" ELSE @,
                              ![p].resolved = @ + 1])
    /\ UNCHANGED <<args, sink>>

\* The response emits finish (index.js:154): the job is resolved.
SinkFinish(p) ==
    /\ pipe[p].pc = "ending"
    /\ settle(p, [pipe EXCEPT ![p].pc = "done", ![p].resolved = @ + 1])
    /\ UNCHANGED <<args, sink>>

Next ==
    \/ \E p \in CallIds : Call(p)
    \/ \E p \in CallIds : \E k \in 1..Len(pipe[p].streamIn) : Chunk(p, k)
    \/ \E p \in CallIds : End(p)
    \/ \E p \in CallIds : CompressBufferDone(p)
    \/ \E p \in CallIds : CompressBufferError(p)
    \/ \E p \in CallIds : CompressStreamError(p)
    \/ \E p \in CallIds : SinkError(p)
    \/ \E p \in CallIds : SinkFinish(p)
    \/ \E p \in CallIds : Timeout(p)

\* One call of httpStreamRecompress, over every input.
Spec == Init /\ [][Next]_vars

\* One call of httpStreamRecompress, over the header values.
SpecN == InitN /\ [][Next]_vars

\* NumCalls concurrent calls.
SpecQ == InitQ /\ [][Next]_vars

\* NumCalls concurrent calls, with the one thing the code's scheduling
\* guarantees of a job that runs: the timer p-queue sets for it (index.js:71)
\* fires.  Input may stop arriving and a response may never finish.
SpecQF == SpecQ /\ \A p \in 1..NumCalls : WF_vars(Timeout(p))

\* NumCalls concurrent calls whose callers may write to their response
\* headers while the job waits in the queue.
NextW ==
    \/ Next
    \/ \E p \in CallIds : CallerSetsHeader(p)

\* The first call streams a body at the limit; the calls made while it runs
\* are for a body below it.
InitW ==
    InitOf({[p \in 1..NumCalls |-> QueueCalls[IF p = 1 THEN 2 ELSE 1]]})

SpecW == InitW /\ [][NextW]_vars

(***************************************************************************)
(* What a response has received.                                           *)
(***************************************************************************)
opsOf(p, op) == {i \in 1..Len(sink[p]) : sink[p][i].op = op}

\* The header maps given to response.set, in order.
RECURSIVE headersSentIn(_)
headersSentIn(log) ==
    IF log = <<>> THEN <<>>
    ELSE IF Head(log).op = "set"
         THEN <<Head(log).arg>> \o headersSentIn(Tail(log))
    ELSE headersSentIn(Tail(log))

headersSent(p) == headersSentIn(sink[p])

\* The body bytes given to response.write and response.end, in order.
RECURSIVE bodyIn(_)
bodyIn(log) ==
    IF log = <<>> THEN <<>>
    ELSE IF Head(log).op \in {"write", "end"}
         THEN Head(log).arg \o bodyIn(Tail(log))
    ELSE bodyIn(Tail(log))

bodySent(p) == bodyIn(sink[p])

ended(p) == opsOf(p, "end") # {}

isChunked(h) ==
    hasKey(h, "transfer-encoding") /\ h["transfer-encoding"] = "chunked"

\* The decoded bytes BufferStream has been given.
decodedBytes(p) == concat(pipe[p].received)

(***************************************************************************)
(* Properties.                                                             *)
(***************************************************************************)

\* C1: every header map written to the response has either a content-length
\* or transfer-encoding = chunked, never both and never neither, whatever
\* content-length and transfer-encoding the caller supplied.
C1_LengthXorChunked ==
    \A p \in CallIds :
        \A i \in 1..Len(headersSent(p)) :
            hasKey(headersSent(p)[i], "content-length")
                # isChunked(headersSent(p)[i])

\* A response of known length was written for a caller that supplied both a
\* content-length and transfer-encoding = chunked.
C1_Witness ==
    \E p \in CallIds :
        /\ hasKey(args[p].headersResponse, "content-length")
        /\ isChunked(args[p].headersResponse)
        /\ pipe[p].handleBuffer = 1
        /\ Len(headersSent(p)) = 1

\* C2: a content-length written to the response is the number of body bytes
\* written to it.
C2_LengthIsBytesWritten ==
    \A p \in CallIds :
        \A i \in 1..Len(headersSent(p)) :
            hasKey(headersSent(p)[i], "content-length")
                => headersSent(p)[i]["content-length"] = Len(bodySent(p))

\* A recompressed body was written whose length is not the content-length
\* the caller supplied.
C2_Witness ==
    \E p \in CallIds :
        /\ pipe[p].pc = "done"
        /\ hasKey(args[p].headersResponse, "content-length")
        /\ Len(headersSent(p)) = 1
        /\ hasKey(headersSent(p)[1], "content-length")
        /\ headersSent(p)[1]["content-length"]
               # args[p].headersResponse["content-length"]
        /\ bodySent(p) # <<>>

\* C3: once the response has been ended, decoding what it received with the
\* decoder of encodingOut gives the bytes that decoding the input with the
\* decoder of encodingIn gives, on the buffer path and on the stream path.
C3_RoundTrip ==
    \A p \in CallIds :
        ended(p) /\ decompressSync(pipe[p].encodingIn, args[p].wire).ok
            => /\ decompressSync(pipe[p].encodingOut, bodySent(p)).ok
               /\ decompressSync(pipe[p].encodingOut, bodySent(p)).bytes
                      = decompressSync(pipe[p].encodingIn, args[p].wire).bytes

\* A gzip body that arrived in several chunks was streamed out as brotli.
C3_Witness ==
    \E p \in CallIds :
        /\ pipe[p].pc = "done"
        /\ pipe[p].handleStream = 1
        /\ pipe[p].encodingIn = "gzip"
        /\ pipe[p].encodingOut = "br"
        /\ pipe[p].delivered >= 2
        /\ bodySent(p) # args[p].wire

\* C4: status and headers are written at most once, together, and only after
\* handleBuffer or handleStream has been called; a resolved job has written
\* them exactly once.
C4_HeadersOnceAfterDecision ==
    \A p \in CallIds :
        /\ Cardinality(opsOf(p, "set")) <= 1
        /\ Cardinality(opsOf(p, "status")) = Cardinality(opsOf(p, "set"))
        /\ pipe[p].handleBuffer + pipe[p].handleStream = 0 => sink[p] = <<>>
        /\ pipe[p].resolved > 0 => Cardinality(opsOf(p, "set")) = 1

\* A streamed response was finished: its headers went out once, and more
\* than one chunk after them.
C4_Witness ==
    \E p \in CallIds :
        /\ pipe[p].pc = "done"
        /\ pipe[p].handleStream = 1
        /\ Cardinality(opsOf(p, "set")) = 1
        /\ Cardinality(opsOf(p, "write")) >= 2

\* C5: handleStream and handleBuffer are each called at most once and never
\* both; once BufferStream's flush function has run, one of them has been.
C5_OneCallback ==
    \A p \in CallIds :
        /\ pipe[p].handleStream <= 1
        /\ pipe[p].handleBuffer <= 1
        /\ pipe[p].handleStream + pipe[p].handleBuffer <= 1
        /\ pipe[p].flushed => pipe[p].handleStream + pipe[p].handleBuffer = 1

\* The input ended after BufferStream had switched to streaming and passed a
\* further chunk through.
C5_Witness ==
    \E p \in CallIds :
        /\ pipe[p].flushed
        /\ pipe[p].handleStream = 1
        /\ pipe[p].handleBuffer = 0
        /\ Len(pipe[p].emitted) > Len(pipe[p].bufferStream.buffers)

\* C6 as claimed: a body written that is longer than the limit goes with
\* transfer-encoding = chunked and no content-length, a body written that is
\* shorter than the limit with a content-length and no transfer-encoding.
C6_ByBytesWritten ==
    \A p \in CallIds :
        pipe[p].pc = "done" =>
            \A i \in 1..Len(headersSent(p)) :
                LET h == headersSent(p)[i] IN
                /\ Len(bodySent(p)) > bufferLimit
                       => isChunked(h) /\ ~hasKey(h, "content-length")
                /\ Len(bodySent(p)) < bufferLimit
                       => hasKey(h, "content-length")
                          /\ ~hasKey(h, "transfer-encoding")

\* C6 as amended: it is the decoded bytes that decide.  When they reach the
\* limit the headers written have transfer-encoding = chunked and no
\* content-length; when the decoded body ends below the limit they have a
\* content-length and no transfer-encoding.
C6_ByDecodedBytes ==
    \A p \in CallIds :
        /\ Len(decodedBytes(p)) >= bufferLimit =>
              /\ Len(headersSent(p)) = 1
              /\ isChunked(headersSent(p)[1])
              /\ ~hasKey(headersSent(p)[1], "content-length")
        /\ Len(decodedBytes(p)) < bufferLimit =>
              \A i \in 1..Len(headersSent(p)) :
                  /\ hasKey(headersSent(p)[i], "content-length")
                  /\ ~hasKey(headersSent(p)[i], "transfer-encoding")
        /\ Len(decodedBytes(p)) < bufferLimit /\ pipe[p].pc = "done" =>
              Len(headersSent(p)) = 1

\* A decoded body below the limit was written, compressed, with a
\* content-length, and what was written is longer than the limit.
C6_Witness ==
    \E p \in CallIds :
        /\ pipe[p].pc = "done"
        /\ Len(decodedBytes(p)) < bufferLimit
        /\ Len(bodySent(p)) > bufferLimit
        /\ hasKey(headersSent(p)[1], "content-length")

\* C7 as claimed: at most one call is in buffer-mode compression (between
\* the call of compressBuffer and the write of its result) at any moment.
C7_OneBufferCompression ==
    Cardinality({p \in CallIds : pipe[p].pc = "compressing"}) <= 1

failureShown(p) ==
    \E i \in 1..Len(sink[p]) :
        \/ sink[p][i].op = "destroy"
        \/ sink[p][i].op = "status" /\ sink[p][i].arg >= 500

\* C9 as claimed: a job whose timeout has passed is failed: the failure is
\* shown and its response is ended or destroyed.
C9_TimeoutFailsTheJob ==
    \A p \in CallIds :
        pipe[p].timedOut =>
            /\ failureShown(p)
            /\ opsOf(p, "end") \cup opsOf(p, "destroy") # {}

\* C10 as claimed: an error of a codec or of the response ends the pipeline
\* and is shown to the caller as a failure.
C10_ErrorsSurface ==
    \A p \in CallIds :
        pipe[p].error # "none" => failureShown(p)

\* C11 as claimed: an error of the decoder, the compressor or the response
\* fails the pipeline: its job is over, unresolved, and the queue no longer
\* counts it as running; and a job is never resolved when its response holds
\* only a part of the body or a body whose length is not the content-length
\* written.
C11_ErrorFailsNeverPartialDone ==
    \A p \in CallIds :
        /\ pipe[p].error # "none" =>
              /\ pipe[p].resolved = 0
              /\ p \notin pending
        /\ pipe[p].resolved > 0 =>
              /\ ended(p)
              /\ decompressSync(pipe[p].encodingOut, bodySent(p)).ok
              /\ decompressSync(pipe[p].encodingOut, bodySent(p)).bytes
                     = args[p].body
              /\ \A i \in 1..Len(headersSent(p)) :
                     hasKey(headersSent(p)[i], "content-length")
                         => headersSent(p)[i]["content-length"]
                                = Len(bodySent(p))

\* C12 as claimed: after a failure before the headers were written (the
\* decoder failing while BufferStream buffers, compressBuffer failing) the
\* response is never written to; after a failure once the headers were
\* written, the failure is shown to the caller.
C12_FailedWritesNothingOrSurfaces ==
    \A p \in CallIds :
        /\ pipe[p].error = "compressBuffer" => sink[p] = <<>>
        /\ pipe[p].error = "decompressStream" /\ pipe[p].handleStream = 0
               => sink[p] = <<>>
        /\ pipe[p].error # "none" /\ headersSent(p) # <<>>
               => failureShown(p)

\* C13 as claimed: after the response of a streamed call has failed or was
\* closed, the pipeline is aborted (its response destroyed) and its job
\* leaves the queue's slot; and every call held back by the queue is
\* started in the end.
C13_SinkErrorAbortsAndFrees ==
    /\ \A p \in 1..NumCalls :
          (pipe[p].error = "sink")
              ~> (opsOf(p, "destroy") # {} /\ p \notin pending)
    /\ \A p \in 1..NumCalls :
          (pipe[p].pc = "queued") ~> (pipe[p].pc # "queued")

\* C14 as claimed: a call that took the buffer path is resolved before every
\* buffer-path call made after it: when a job is resolved by handleBuffer,
\* no call made later has been resolved by handleBuffer already.
C14_FifoCompletion ==
    [][\A p \in CallIds :
          pipe[p].resolved = 0 /\ pipe'[p].resolved > 0
              /\ pipe'[p].handleBuffer = 1
          => \A q \in CallIds :
                 q > p /\ pipe[q].handleBuffer = 1
                     => pipe[q].resolved = 0]_vars

\* C15: a job is resolved once, and only after the whole response was handed
\* over: the input has been read to its end, status and headers were written
\* first and end() last, what was written decodes to the whole body, and on
\* the buffer path the response was given exactly status, headers and
\* end(bytes).
C15_ResolvedAfterFullWrite ==
    \A p \in CallIds :
        pipe[p].resolved > 0 =>
            /\ pipe[p].resolved = 1
            /\ pipe[p].streamIn = <<>>
            /\ pipe[p].flushed
            /\ Len(sink[p]) >= 3
            /\ sink[p][1].op = "status"
            /\ sink[p][2].op = "set"
            /\ sink[p][Len(sink[p])].op = "end"
            /\ opsOf(p, "end") = {Len(sink[p])}
            /\ decompressSync(pipe[p].encodingOut, bodySent(p)).ok
            /\ decompressSync(pipe[p].encodingOut, bodySent(p)).bytes
                   = args[p].body
            /\ pipe[p].handleBuffer = 1 => Len(sink[p]) = 3

\* A streamed, gzip-compressed response longer than the limit was finished
\* and its job resolved.
C15_Witness ==
    \E p \in CallIds :
        /\ pipe[p].resolved = 1
        /\ pipe[p].handleStream = 1
        /\ pipe[p].encodingOut = "gzip"
        /\ Len(bodySent(p)) > bufferLimit
        /\ sink[p][Len(sink[p])].op = "end"

\* C16: every header map written to the response has vary =
\* accept-encoding, on both paths, also when the body is passed on as it
\* came, and whatever vary the caller supplied.
C16_VaryIsAcceptEncoding ==
    \A p \in CallIds :
        \A i \in 1..Len(headersSent(p)) :
            /\ hasKey(headersSent(p)[i], "vary")
            /\ headersSent(p)[i]["vary"] = "accept-encoding"

\* An uncompressed image was passed on uncompressed for a caller that
\* supplied another vary: the headers written have vary = accept-encoding.
C16_Witness ==
    \E p \in CallIds :
        /\ hasKey(args[p].headersResponse, "vary")
        /\ args[p].headersResponse["vary"] # "accept-encoding"
        /\ pipe[p].encodingIn = "raw"
        /\ pipe[p].encodingOut = "raw"
        /\ Len(headersSent(p)) = 1
        /\ bodySent(p) = args[p].wire

(***************************************************************************)
(* The words of the claims about negotiation, stated on the header values  *)
(* the caller passed.                                                      *)
(***************************************************************************)
\* Two characters that are the same letter in either case, or the same
\* character.
sameLetter(c, d) ==
    \/ c = d
    \/ \E j \in 1..Len(LowerChars) :
          {c, d} = {LowerChars[j], UpperChars[j]}

\* The token stands in the text at some place, in whatever case.
containsToken(text, token) ==
    \E i \in 0..(Len(text) - Len(token)) :
        \A j \in 1..Len(token) : sameLetter(text[i + j], token[j])

\* The first of brotli, gzip and deflate whose token a header holds, brotli
\* passed over when excluded; identity for an absent header or one that
\* holds none.
firstContained(headers, key, excludeBrotli) ==
    IF ~hasKey(headers, key) THEN "raw"
    ELSE IF ~excludeBrotli /\ containsToken(headers[key], S_br) THEN "br"
    ELSE IF containsToken(headers[key], S_gzip) THEN "gzip"
    ELSE IF containsToken(headers[key], S_deflate) THEN "deflate"
    ELSE "raw"

\* The content type's primary token is image, audio or video in whatever
\* case: the text is that word, or that word followed by a slash.
isMedia(headers) ==
    /\ hasKey(headers, "content-type")
    /\ \E w \in {S_image, S_audio, S_video} :
          LET text == headers["content-type"] IN
          /\ Len(text) >= Len(w)
          /\ \A j \in 1..Len(w) : sameLetter(text[j], w[j])
          /\ Len(text) > Len(w) => text[Len(w) + 1] = "/"

\* The job of call p has been started: the encodings are chosen.
started(p) == pipe[p].pc \notin {"new", "queued"}

\* C17: a response whose content type has the primary token image, audio or
\* video, in whatever case, gets encodingOut = raw for every accept-encoding,
\* encodingIn and preset: no header map written for it has a
\* content-encoding.
C17_MediaExclusion ==
    \A p \in CallIds :
        started(p) /\ isMedia(args[p].headersResponse) =>
            /\ pipe[p].encodingOut = "raw"
            /\ \A i \in 1..Len(headersSent(p)) :
                   ~hasKey(headersSent(p)[i], "content-encoding")

\* A gzip-compressed response of type Video/mp4 for a client that accepts
\* brotli was written uncompressed.
C17_Witness ==
    \E p \in CallIds :
        /\ pipe[p].pc = "done"
        /\ textOf(args[p].headersResponse, "content-type") = T_Video_mp4
        /\ containsToken(textOf(args[p].headersRequest, "accept-encoding"), S_br)
        /\ pipe[p].encodingIn = "gzip"
        /\ pipe[p].encodingOut = "raw"
        /\ bodySent(p) = args[p].body

\* C18: for a response that is not image, audio or video: with
\* fastCompression and encodingIn = gzip, encodingOut is never br; in every
\* other case an accept-encoding that holds br gives encodingOut = br.
C18_BrotliExclusion ==
    \A p \in CallIds :
        started(p) /\ ~isMedia(args[p].headersResponse) =>
            IF args[p].fastCompression /\ pipe[p].encodingIn = "gzip"
            THEN pipe[p].encodingOut # "br"
            ELSE (hasKey(args[p].headersRequest, "accept-encoding")
                    /\ containsToken(args[p].headersRequest["accept-encoding"],
                                     S_br))
                 => pipe[p].encodingOut = "br"

\* With fastCompression, a gzip-compressed response for a client that
\* accepts brotli was written with content-encoding gzip.
C18_Witness ==
    \E p \in CallIds :
        /\ pipe[p].pc = "done"
        /\ args[p].fastCompression
        /\ pipe[p].encodingIn = "gzip"
        /\ textOf(args[p].headersRequest, "accept-encoding") = T_gzip_deflate_br
        /\ pipe[p].encodingOut = "gzip"
        /\ headersSent(p)[1]["content-encoding"] = S_gzip

\* C19: detectEncoding gives the first of brotli, gzip and deflate whose
\* token the text holds, in whatever case and wherever it stands, brotli
\* passed over when it is excluded, and identity for an absent text or one
\* that holds no token; it always gives one of the four.  Stated of the
\* accept-encoding of every response that is not image, audio or video.
C19_DetectEncoding ==
    \A p \in CallIds :
        started(p) =>
            /\ pipe[p].encodingOut \in EncodingNames
            /\ ~isMedia(args[p].headersResponse) =>
                  pipe[p].encodingOut =
                      firstContained(args[p].headersRequest, "accept-encoding",
                                     args[p].fastCompression
                                         /\ pipe[p].encodingIn = "gzip")

\* For accept-encoding "deflate, gzip" the response was written as gzip,
\* although deflate stands first in the text.
C19_Witness ==
    \E p \in CallIds :
        /\ pipe[p].pc = "done"
        /\ textOf(args[p].headersRequest, "accept-encoding") = T_deflate_gzip
        /\ pipe[p].encodingOut = "gzip"
        /\ headersSent(p)[1]["content-encoding"] = S_gzip

\* C20 as claimed: encodingIn is the encoding whose token is exactly the
\* content-encoding of the response, and identity for an absent
\* content-encoding or any other text.
C20_ExactLookup ==
    \A p \in CallIds :
        started(p) =>
            pipe[p].encodingIn =
                (IF ~hasKey(args[p].headersResponse, "content-encoding")
                 THEN "raw"
                 ELSE LET text == args[p].headersResponse["content-encoding"]
                      IN  IF text = S_br THEN "br"
                          ELSE IF text = S_gzip THEN "gzip"
                          ELSE IF text = S_deflate THEN "deflate"
                          ELSE "raw")

\* C20 as amended: encodingIn is found in the content-encoding the way
\* encodingOut is found in the accept-encoding, brotli never excluded: the
\* first of brotli, gzip and deflate whose token the text holds, in whatever
\* case, and identity for an absent content-encoding or one that holds none.
C20_SubstringLookup ==
    \A p \in CallIds :
        started(p) =>
            pipe[p].encodingIn =
                firstContained(args[p].headersResponse, "content-encoding",
                               FALSE)

\* A response with content-encoding x-gzip was decoded with gunzip and
\* written.
C20_Witness ==
    \E p \in CallIds :
        /\ pipe[p].pc = "done"
        /\ textOf(args[p].headersResponse, "content-encoding") = T_x_gzip
        /\ pipe[p].encodingIn = "gzip"
        /\ decompressSync(pipe[p].encodingOut, bodySent(p)).bytes = args[p].body

\* C21: every header map written to the response has the token of
\* encodingOut as its content-encoding, and none when encodingOut is raw,
\* whatever content-encoding the origin declared; and what is written is in
\* that encoding: a compressed body starts with the format's first byte, an
\* ended response decodes with the decoder of encodingOut to the body, and
\* with encodingOut = raw the bytes written are the body's.
C21_ContentEncodingIsEncodingOut ==
    \A p \in CallIds :
        /\ \A i \in 1..Len(headersSent(p)) :
              IF pipe[p].encodingOut = "raw"
              THEN ~hasKey(headersSent(p)[i], "content-encoding")
              ELSE /\ hasKey(headersSent(p)[i], "content-encoding")
                   /\ headersSent(p)[i]["content-encoding"]
                          = (CASE pipe[p].encodingOut = "br" -> S_br
                               [] pipe[p].encodingOut = "gzip" -> S_gzip
                               [] pipe[p].encodingOut = "deflate" -> S_deflate)
        /\ bodySent(p) # <<>> =>
              IF pipe[p].encodingOut = "raw"
              THEN bodySent(p) = SubSeq(args[p].body, 1, Len(bodySent(p)))
              ELSE bodySent(p)[1] = magic(pipe[p].encodingOut)
        /\ ended(p) =>
              /\ decompressSync(pipe[p].encodingOut, bodySent(p)).ok
              /\ decompressSync(pipe[p].encodingOut, bodySent(p)).bytes
                     = args[p].body

\* A response the origin had compressed with gzip was written uncompressed,
\* without a content-encoding, for a client that accepts none.
C21_Witness ==
    \E p \in CallIds :
        /\ pipe[p].pc = "done"
        /\ textOf(args[p].headersResponse, "content-encoding") = S_gzip
        /\ pipe[p].encodingOut = "raw"
        /\ ~hasKey(args[p].headersRequest, "accept-encoding")
        /\ ~hasKey(headersSent(p)[1], "content-encoding")
        /\ bodySent(p) = args[p].body
        /\ bodySent(p) # args[p].wire

\* C22: once BufferStream has switched to streaming, the chunks it has
\* pushed downstream are the chunks it was given, each once and in the order
\* they came: the buffered ones, the one that reached the limit, and every
\* later one as it is.
C22_EmitsWhatItReceived ==
    \A p \in CallIds :
        ~pipe[p].bufferStream.bufferMode =>
            /\ pipe[p].emitted = pipe[p].received
            /\ Len(pipe[p].emitted) >= Len(pipe[p].bufferStream.buffers)
            /\ SubSeq(pipe[p].emitted, 1, Len(pipe[p].bufferStream.buffers))
                   = pipe[p].bufferStream.buffers

\* BufferStream had buffered a chunk, switched on the second and passed a
\* third one through.
C22_Witness ==
    \E p \in CallIds :
        /\ ~pipe[p].bufferStream.bufferMode
        /\ Len(pipe[p].bufferStream.buffers) = 2
        /\ Len(pipe[p].received) = 3
        /\ pipe[p].emitted = pipe[p].received

\* C23: BufferStream is in stream mode exactly when the decoded bytes it was
\* given have reached the limit (>=); it switched on the first chunk with
\* which they did, and called handleStream once then; a body of exactly the
\* limit is streamed and a body one byte shorter is handed to handleBuffer,
\* however the input was split into chunks; and the switch is never undone.
C23_SwitchAtLimitInclusive ==
    [][\A p \in CallIds :
          LET bs == pipe'[p].bufferStream
              total == Len(concat(pipe'[p].received))
          IN  /\ bs.bufferMode <=> total < bufferLimit
              /\ pipe'[p].handleStream = (IF total >= bufferLimit THEN 1 ELSE 0)
              /\ ~bs.bufferMode =>
                    Len(concat(SubSeq(bs.buffers, 1, Len(bs.buffers) - 1)))
                        < bufferLimit
              /\ pipe'[p].flushed =>
                    pipe'[p].handleBuffer
                        = (IF Len(args[p].body) < bufferLimit THEN 1 ELSE 0)
              /\ ~pipe[p].bufferStream.bufferMode => ~bs.bufferMode]_vars

\* A body of exactly the limit, delivered in two chunks or more, was
\* streamed.
C23_Witness ==
    \E p \in CallIds :
        /\ pipe[p].flushed
        /\ Len(args[p].body) = bufferLimit
        /\ Len(pipe[p].received) >= 2
        /\ pipe[p].handleStream = 1
        /\ pipe[p].handleBuffer = 0

\* C24: what BufferStream holds is bounded by the limit and one chunk.  In
\* buffer mode size is below the limit and is the sum of the lengths of the
\* chunks held; at the switch it holds less than the limit and the chunk
\* that reached it; and in stream mode it keeps nothing more: the chunks
\* held and size stay as they were at the switch.
C24_HoldsLimitPlusOneChunk ==
    [][\A p \in CallIds :
          LET bs == pipe'[p].bufferStream IN
          /\ bs.size = Len(concat(bs.buffers))
          /\ bs.bufferMode /\ pipe'[p].pc \notin {"new", "queued"}
                => bs.size < bs.maxSize
          /\ ~bs.bufferMode =>
                bs.size < bs.maxSize + Len(bs.buffers[Len(bs.buffers)])
          /\ ~pipe[p].bufferStream.bufferMode =>
                bs = pipe[p].bufferStream]_vars

\* BufferStream, holding a chunk, switched on one that took it over the
\* limit, and the input has ended since.
C24_Witness ==
    \E p \in CallIds :
        /\ ~pipe[p].bufferStream.bufferMode
        /\ pipe[p].bufferStream.size > pipe[p].bufferStream.maxSize
        /\ Len(pipe[p].bufferStream.buffers) >= 2
        /\ pipe[p].flushed

\* C25: in buffer mode BufferStream pushes nothing downstream, also when the
\* input ends in buffer mode; handleBuffer is then given the chunks
\* received, concatenated in the order they came (no bytes when no chunk
\* came), which is the whole decoded body, and that is what is compressed
\* and written.
C25_BufferModeEmitsNothing ==
    \A p \in CallIds :
        /\ pipe[p].bufferStream.bufferMode => pipe[p].emitted = <<>>
        /\ pipe[p].handleBuffer = 1 =>
              /\ pipe[p].emitted = <<>>
              /\ Cardinality(opsOf(p, "write")) = 0
              /\ bufferStreamFlush(pipe[p].bufferStream).buffer
                     = concat(pipe[p].received)
              /\ concat(pipe[p].received) = args[p].body
              /\ pipe[p].pc = "done" =>
                    bodySent(p) = compressBuffer(pipe[p].encodingOut,
                                                 concat(pipe[p].received),
                                                 args[p].fastCompression)

\* A body that came in two chunks and ended below the limit was handed to
\* handleBuffer and written.
C25_Witness ==
    \E p \in CallIds :
        /\ pipe[p].handleBuffer = 1
        /\ pipe[p].pc = "done"
        /\ Len(pipe[p].received) = 2
        /\ pipe[p].received[1] # pipe[p].received[2]
        /\ pipe[p].emitted = <<>>

\* C26: on both paths the response is given status 200 first, then the
\* headers, once each, and only then body bytes: everything after the first
\* two calls is a write or the end.  On the stream path the headers written
\* are the finalized (chunked) ones and they are there as soon as
\* BufferStream has left buffer mode, so before the first buffered chunk is
\* pushed on; on the buffer path nothing is written before handleBuffer's
\* status, headers and body.
C26_StatusHeadersBody ==
    \A p \in CallIds :
        LET log == sink[p] IN
        /\ log # <<>> =>
              /\ Len(log) >= 2
              /\ log[1] = [op |-> "status", arg |-> 200]
              /\ log[2].op = "set"
              /\ \A i \in 3..Len(log) : log[i].op \in {"write", "end"}
        /\ \A i \in opsOf(p, "status") : log[i].arg = 200
        /\ pipe[p].emitted # <<>> \/ pipe[p].handleStream > 0
              \/ (started(p) /\ ~pipe[p].bufferStream.bufferMode) =>
              /\ Len(log) >= 2
              /\ log[2].op = "set"
              /\ isChunked(log[2].arg)
              /\ ~hasKey(log[2].arg, "content-length")
              /\ log[2].arg = pipe[p].headersResponse
        /\ pipe[p].handleStream = 0 /\ log # <<>> =>
              /\ pipe[p].pc = "done"
              /\ Len(log) = 3
              /\ log[3].op = "end"
              /\ log[2].arg["content-length"] = Len(log[3].arg)

\* A streamed, compressed response in progress: status and headers, then
\* the first compressed bytes, and the input has not ended.
C26_Witness ==
    \E p \in CallIds :
        /\ pipe[p].pc = "piping"
        /\ pipe[p].handleStream = 1
        /\ pipe[p].encodingOut = "gzip"
        /\ Len(sink[p]) >= 3
        /\ sink[p][3].op = "write"
        /\ sink[p][3].arg # <<>>
        /\ pipe[p].streamIn # <<>>

\* C27: BufferStream is given decoded bytes only, whatever the origin's
\* encoding: what it has received is the beginning of the decoded body, and
\* the whole of it once the input has ended.  The limit is compared with the
\* decoded byte count: a body that ended took the stream path exactly when
\* its decoded length reached the limit, so equal decoded bodies take the
\* same path whatever encodingIn was and however long the encoded input was;
\* handleBuffer is given the decoded body and the stream path writes an
\* encoding of it.
C27_DecodedBytesDecide ==
    \A p \in CallIds :
        /\ started(p) =>
              /\ pipe[p].encodingIn = args[p].origin
              /\ Len(decodedBytes(p)) <= Len(args[p].body)
              /\ decodedBytes(p)
                    = SubSeq(args[p].body, 1, Len(decodedBytes(p)))
              /\ pipe[p].bufferStream.bufferMode
                    <=> Len(decodedBytes(p)) < bufferLimit
        /\ pipe[p].flushed =>
              /\ decodedBytes(p) = args[p].body
              /\ pipe[p].handleStream
                    = (IF Len(args[p].body) >= bufferLimit THEN 1 ELSE 0)
              /\ pipe[p].handleBuffer
                    = (IF Len(args[p].body) < bufferLimit THEN 1 ELSE 0)
        /\ pipe[p].handleBuffer = 1 =>
              bufferStreamFlush(pipe[p].bufferStream).buffer = args[p].body
        /\ pipe[p].handleStream = 1 /\ ended(p) =>
              decompressSync(pipe[p].encodingOut, bodySent(p))
                  = [ok |-> TRUE, bytes |-> args[p].body]

\* A gzip body whose encoded bytes reach the limit while its decoded bytes
\* stay below it came in two chunks and took the buffer path.
C27_Witness ==
    \E p \in CallIds :
        /\ pipe[p].encodingIn = "gzip"
        /\ Len(args[p].wire) >= bufferLimit
        /\ Len(args[p].body) < bufferLimit
        /\ args[p].body # <<>>
        /\ pipe[p].delivered = 2
        /\ pipe[p].handleBuffer = 1
        /\ pipe[p].handleStream = 0
        /\ pipe[p].pc = "done"

\* C28: a call that waits in the queue (or has not been made) has had no
\* effect: nothing was written to its response, no byte of its input stream
\* was taken and no stream attached, no encoding was chosen, and its
\* response headers are as the caller left them, without the vary and
\* content-encoding the negotiation sets.  A job that has started chose
\* encodingOut from the headers as they were when it started, so a content
\* type the caller wrote while it waited is the one that counts.
C28_WaitingHasNoEffect ==
    \A p \in CallIds :
        /\ ~started(p) =>
              /\ sink[p] = <<>>
              /\ pipe[p].streamIn = args[p].wire
              /\ pipe[p].delivered = 0
              /\ pipe[p].received = <<>>
              /\ pipe[p].bufferStream = BufferStream(0)
              /\ pipe[p].encodingIn = "none"
              /\ pipe[p].encodingOut = "none"
              /\ \A k \in {"vary", "content-encoding", "content-length",
                           "transfer-encoding", "cache-control"} :
                    /\ hasKey(pipe[p].headersResponse, k)
                          <=> hasKey(args[p].headersResponse, k)
                    /\ hasKey(pipe[p].headersResponse, k) =>
                          pipe[p].headersResponse[k] = args[p].headersResponse[k]
              /\ textOf(pipe[p].headersResponse, "content-type")
                    \in {textOf(args[p].headersResponse, "content-type"),
                         T_image_png}
        /\ started(p) =>
              /\ pipe[p].encodingOut =
                    (IF typeOf(pipe[p].headersResponse)
                           \in {S_audio, S_image, S_video}
                     THEN "raw"
                     ELSE detectEncoding(
                              textOf(args[p].headersRequest, "accept-encoding"),
                              args[p].fastCompression
                                  /\ pipe[p].encodingIn = "gzip"))
              /\ hasKey(pipe[p].headersResponse, "vary")
              /\ pipe[p].headersResponse["vary"] = "accept-encoding"
              /\ \A i \in 1..Len(headersSent(p)) :
                    textOf(headersSent(p)[i], "content-type")
                        = textOf(pipe[p].headersResponse, "content-type")

\* A call made for a JSON body waited, its caller changed the content type
\* to an image meanwhile, and the job then sent the body unencoded.
C28_Witness ==
    \E p \in CallIds :
        /\ textOf(args[p].headersResponse, "content-type") = T_application_json
        /\ textOf(pipe[p].headersResponse, "content-type") = T_image_png
        /\ pipe[p].pc = "done"
        /\ pipe[p].encodingOut = "raw"
        /\ bodySent(p) = args[p].body
        /\ \A i \in 1..Len(headersSent(p)) :
              ~hasKey(headersSent(p)[i], "content-encoding")

\* The response headers of call p as they would be had the caller passed
\* no content-length.
withoutLength(p) == deleteKey(args[p].headersResponse, "content-length")

\* C29: the content-length the caller passes has no influence: the
\* encodings chosen, the path taken, the headers written and the body
\* written are those the same call gives with the content-length removed
\* from its response headers, so they are the same for every value of it
\* and without it.  The path is the one the decoded byte count asks for.
C29_ContentLengthIgnored ==
    \A p \in CallIds :
        LET a == args[p]
            negotiated == negotiatedHeaders(a.headersRequest, withoutLength(p),
                                            a.fastCompression)
        IN  /\ started(p) =>
                  /\ pipe[p].encodingIn = encodingInOf(withoutLength(p))
                  /\ pipe[p].encodingOut =
                        encodingOutOf(a.headersRequest, withoutLength(p),
                                      a.fastCompression)
                  /\ pipe[p].handleStream =
                        (IF Len(decodedBytes(p)) >= bufferLimit THEN 1 ELSE 0)
            /\ pipe[p].flushed =>
                  pipe[p].handleBuffer =
                      (IF Len(a.body) < bufferLimit THEN 1 ELSE 0)
            /\ pipe[p].handleStream = 1 =>
                  /\ headersSent(p) = <<streamHeaders(negotiated)>>
                  /\ sink[p] =
                        pipeOut(pipe[p].encodingOut, a.fastCompression,
                                newDeflate, pipe[p].received,
                                sendHead(<<>>, 200, streamHeaders(negotiated))).log
                        \o (IF pipe[p].flushed
                            THEN <<[op |-> "end", arg |-> <<>>]>> ELSE <<>>)
            /\ pipe[p].pc = "done" /\ pipe[p].handleBuffer = 1 =>
                  LET buffer == compressBuffer(pipe[p].encodingOut, a.body,
                                               a.fastCompression)
                  IN  sink[p] =
                          Append(sendHead(<<>>, 200,
                                          bufferHeaders(negotiated, buffer)),
                                 [op |-> "end", arg |-> buffer])
            /\ pipe[p].handleStream = 0
                  /\ ~(pipe[p].pc = "done" /\ pipe[p].handleBuffer = 1) =>
                  sink[p] = <<>>

\* A body below the limit was passed with a content-length beyond the limit:
\* it took the buffer path and the length written is that of the body sent.
C29_Witness ==
    \E p \in CallIds :
        /\ hasKey(args[p].headersResponse, "content-length")
        /\ args[p].headersResponse["content-length"] >= bufferLimit
        /\ Len(args[p].body) < bufferLimit
        /\ pipe[p].pc = "done"
        /\ pipe[p].handleBuffer = 1
        /\ pipe[p].handleStream = 0
        /\ Len(headersSent(p)) = 1
        /\ headersSent(p)[1]["content-length"] = Len(bodySent(p))
        /\ headersSent(p)[1]["content-length"]
              # args[p].headersResponse["content-length"]

\* Whether two header maps agree on key k: both lack it or both have it with
\* the same value.
sameAt(g, h, k) ==
    /\ hasKey(g, k) <=> hasKey(h, k)
    /\ hasKey(g, k) => g[k] = h[k]

\* C30: a run changes only vary, content-encoding, content-length and
\* transfer-encoding of headersResponse.  vary and content-encoding change
\* only in the step in which the job starts (the negotiation), content-length
\* and transfer-encoding only in a step of the finalization: the one in
\* which handleStream is called, or the one that ends handleBuffer.  Every
\* other response header stays as the caller passed it, in the object and
\* in every header map written to the response; and what the caller passed
\* as headersRequest stays as it was.
C30_FrameCondition ==
    [][\A p \in CallIds :
          LET g == pipe[p].headersResponse
              h == pipe'[p].headersResponse
              starts == pipe[p].pc \in {"new", "queued"} /\ pipe'[p].pc = "piping"
              finalizes ==
                  \/ pipe'[p].handleStream = pipe[p].handleStream + 1
                  \/ pipe[p].pc = "compressing" /\ pipe'[p].pc \in {"done", "stalled"}
              sent == headersSentIn(sink'[p])
          IN  /\ args'[p] = args[p]
              /\ \A k \in (DOMAIN args[p].headersResponse \cup DOMAIN h)
                          \ {"vary", "content-encoding", "content-length",
                             "transfer-encoding"} :
                    /\ sameAt(args[p].headersResponse, h, k)
                    /\ \A i \in 1..Len(sent) :
                          sameAt(args[p].headersResponse, sent[i], k)
              /\ ~starts =>
                    /\ sameAt(g, h, "vary")
                    /\ sameAt(g, h, "content-encoding")
              /\ ~finalizes =>
                    /\ sameAt(g, h, "content-length")
                    /\ sameAt(g, h, "transfer-encoding")
              /\ pipe'[p].pc \in {"new", "queued"} => h = args[p].headersResponse
      ]_vars

\* A call passed with headers left over from the origin (vary, a chunked
\* transfer-encoding, a content-length) has started and buffered a chunk:
\* vary and content-encoding are the negotiated ones, the other two are
\* still the caller's, and so are cache-control and content-type.
C30_Witness ==
    \E p \in CallIds :
        LET a == args[p].headersResponse
            h == pipe[p].headersResponse
        IN  /\ hasKey(a, "vary") /\ a["vary"] # "accept-encoding"
            /\ hasKey(a, "transfer-encoding")
            /\ hasKey(a, "content-length")
            /\ hasKey(a, "cache-control")
            /\ h["vary"] = "accept-encoding"
            /\ ~sameAt(a, h, "content-encoding")
            /\ pipe[p].pc = "piping"
            /\ pipe[p].bufferStream.bufferMode
            /\ pipe[p].received # <<>>
            /\ sameAt(a, h, "content-length")
            /\ sameAt(a, h, "transfer-encoding")
            /\ sameAt(a, h, "cache-control")
            /\ sameAt(a, h, "content-type")

====
